---- MODULE Spec2Model ----
(***************************************************************************)
(* PyAudioPlayer: the parallel download queue (YTD_Widget / DLFrame), the  *)
(* loudness normalisation task (NormWorkerThread / NormalizerWindow) and   *)
(* the metadata scan (MetadataWorkerThread / LoadingBarWindow), modelled   *)
(* as state machines from src/GUI_elements.py, src/utils.py and            *)
(* src/element_bases.py, with the trim and edit windows, the metadata      *)
(* writer, the message label, the song table and the amplitude binning.    *)
(***************************************************************************)
EXTENDS Integers, Sequences, FiniteSets, TLC

\* ------------------------------------------------------------- bounds
\* Number of distinct URL strings the user can type.
NumURLs == 2
\* Largest parallel_lim the widget is constructed with.
MaxLim == 2
\* Largest number of songs handed to the normalisation window.
MaxSongs == 2
\* Largest number of files find_songs hands to the metadata scan.
MaxFiles == 3
\* Duration, in seconds, of the song shown in the trim window.
Duration == 2
\* Largest number of trim workers one trim window starts.
MaxTrims == 2
\* delay_ms of the message label, in units of time.
DelayMs == 3
\* Largest number of messages set on the message label.
MaxMsgs == 3
\* Largest number of rows of the song table.
MaxRows == 3
\* Largest len(data) handed to max_amplitude_binning.
MaxData == 5
\* Largest num_bins handed to max_amplitude_binning.
MaxBins == 3

VARIABLES
    \* YTD_Widget
    URLs,          \* self.URLs: set of URL strings waiting for the next poll
    dl_frames,     \* self.dl_frames: list of DLFrame objects
    parallel_lim,  \* self.parallel_lim
    autoclose,     \* self.autoclose
    timer,         \* TRUE while a QTimer.singleShot(1000, _check_loop) is pending
    \* NormWorkerThread / NormalizerWindow
    songs,             \* len(self.songs)
    unnormalized,      \* songs for which check_normalized(path) is False
    failure,           \* song -> how normalising it ends: "ok", "decode", "perm"
    song_file,         \* song -> its file: "old", "writing", "written", "partial"
    wpc,               \* position of NormWorkerThread.run
    checked,           \* songs the first loop of run has gone through
    to_convert,        \* the list to_convert of run
    converted,         \* items of to_convert whose result imap_unordered has yielded
    normLog,           \* signals the worker has emitted, in order
    normRead,          \* how many of them the UI thread has handled
    _interrupt_event,  \* NormalizerWindow._interrupt_event.is_set()
    _ignore_updates,   \* NormalizerWindow._ignore_updates
    _check_progress,   \* NormalizerWindow._check_progress
    _norm_progress,    \* NormalizerWindow._norm_progress
    cancel_button,     \* slots connected to cancel_button.pressed, in order
    norm_event,        \* norm_event.is_set(), the event shared with the main window
    thread_finished,   \* self.thread.isFinished()
    win,               \* "open", "closing" (close() blocked in thread.wait()), "closed"
    setAt,             \* progress events emitted when _interrupt_event was set, or -1
    \* MetadataWorkerThread / LoadingBarWindow
    mdSongs,       \* len(LoadingBarWindow.songs)
    mdBad,         \* songs in whose file MP3() finds no header
    mdNoTags,      \* songs whose file has no ID3 tags (file.tags is None)
    mdpc,          \* position of MetadataWorkerThread.run
    mdDone,        \* songs the loop of run has gone through
    mdLog,         \* signals the worker has emitted, in order
    mdRead,        \* how many of them the UI thread has handled
    _progress,     \* LoadingBarWindow._progress
    _running,      \* LoadingBarWindow._running
    hidden,        \* LoadingBarWindow is hidden
    mdOut,         \* lists passed to LoadingBarWindow.done, in order
    out,           \* the list out of MetadataWorkerThread.run
    \* TrimWorkerThread / TrimSongWindow
    trWin,         \* "absent", "open", "processing" (slider_frame hidden), "closed"
    pos_slider,    \* pos_slider.value(): <<L, R>>
    trim_workers,  \* the TrimWorkerThread objects started, in order
    _trimming_event,   \* trimming_event.is_set(), shared with the main window
    _message_label,    \* text of the main window's message label
    selection,     \* text of the duration cell of the selected table row
    \* write_metadata / read_metadata on the files of the music folder
    disk,          \* path -> the file at that path
    wm_pc,         \* position of write_metadata
    wm_args,       \* its arguments songname, genre, year
    readback,      \* what read_metadata returned after the call, or <<>>
    \* EditWindow
    ed_pc,         \* "absent", "open", then the position of update_values, "closed"
    editors,       \* texts of the editors: <<name, genre, year>>
    old_data,      \* old_data without the duration: <<name, genre, year>>
    row,           \* texts of the cells of the selected row: <<name, genre, year>>
    msg_label,     \* text of msg_label
    editing_event, \* editing_event.is_set(), shared with the main window
    \* TimedMessageLabel
    lblText,       \* the text shown: 0 for "", else the number of the message
    lblAge,        \* time since the last setText, up to DelayMs
    lblAuto,       \* the last setText had auto_clear
    lblTimers,     \* time left of each pending QTimer.singleShot(delay_ms, clear)
    lblSets,       \* number of setText calls so far
    \* SongTable
    tblRows,       \* rowCount()
    tblHidden,     \* rows r with isRowHidden(r)
    tblSel,        \* get_selected_row_index(): the selected row, or -1
    tblOp,         \* the last call of next / prev and the row selected before it
    \* max_amplitude_binning
    binData,       \* the argument data
    binNum,        \* the argument num_bins
    binPc,         \* "call", "returned", "raised"
    bins           \* the list returned

dlvars == <<URLs, dl_frames, parallel_lim, autoclose, timer>>
normvars == <<songs, unnormalized, failure, song_file, wpc, checked,
             to_convert, converted,
              normLog, normRead, _interrupt_event, _ignore_updates, _check_progress,
              _norm_progress, cancel_button, norm_event, thread_finished, win, setAt>>
mdvars == <<mdSongs, mdBad, mdNoTags, mdpc, mdDone, mdLog, mdRead, _progress,
           _running,
           hidden, mdOut, out>>
trimvars == <<trWin, pos_slider, trim_workers, _trimming_event, _message_label,
              selection>>
tagvars == <<disk, wm_pc, wm_args, readback>>
editvars == <<ed_pc, editors, old_data, row, msg_label, editing_event>>
lblvars == <<lblText, lblAge, lblAuto, lblTimers, lblSets>>
tblvars == <<tblRows, tblHidden, tblSel, tblOp>>
binvars == <<binData, binNum, binPc, bins>>
widgetvars == <<lblvars, tblvars, binvars>>
auxvars == <<trimvars, tagvars, editvars, widgetvars>>
nontrimvars == <<dlvars, normvars, mdvars, tagvars, editvars, widgetvars>>
nontagvars == <<dlvars, normvars, mdvars, trimvars, editvars, widgetvars>>
noneditvars == <<dlvars, normvars, mdvars, trimvars, widgetvars>>
nonlblvars == <<dlvars, normvars, mdvars, trimvars, tagvars, editvars, tblvars,
                binvars>>
nontblvars == <<dlvars, normvars, mdvars, trimvars, tagvars, editvars, lblvars,
                binvars>>
nonbinvars == <<dlvars, normvars, mdvars, trimvars, tagvars, editvars, lblvars,
                tblvars>>
vars == <<dlvars, normvars, mdvars, auxvars>>

\* ------------------------------------------------------------ helpers
Range(s) == {s[i] : i \in DOMAIN s}

RemoveAt(s, i) == SubSeq(s, 1, i - 1) \o SubSeq(s, i + 1, Len(s))

\* All orders in which a for loop can go through a Python set.
Orders(S) == {o \in [1..Cardinality(S) -> S] : Range(o) = S}

\* ===================================================================
\* Download queue
\* ===================================================================

\* URL strings are 1..NumURLs; 0 is a field that is empty after strip().
URLStrings == 1..NumURLs
Fields == 0..NumURLs

\* Error messages of the downloader, as the words the logger looks for.
Msgs == {<<"unable">>, <<"ERROR">>, <<"ERROR", "unable">>, <<"failed">>}

\* word in msg
Contains(msg, word) == \E i \in DOMAIN msg : msg[i] = word

\* DLFrame.__init__ before "if start_immediately". th is the position of the
\* frame's download thread (_dl): "none", "ytd" (in ytd), "error" (in
\* DLFrame.error, called by ytd, before its last assignment), "raising"
\* (ytd has raised DownloadError, which carries exc), "handled" (the except
\* clause has run), "dead". The label's text decides nothing and is left out.
NewFrame(URL, ac) ==
    [URL |-> URL, can_run |-> TRUE, can_close |-> ac,
     started |-> FALSE, finished |-> FALSE, closed |-> "unset",
     button |-> "_retry", th |-> "none", exc |-> <<>>]

\* DLFrame._retry: a new download thread unless can_run is false.
_retry(F) ==
    IF ~F.can_run
    THEN F
    ELSE [F EXCEPT !.started = TRUE, !.th = "ytd", !.button = "_cancel_thread"]

\* the value of self._qty_running after _check_runnable
qty_running(frames) ==
    Cardinality({i \in DOMAIN frames : frames[i].started /\ ~frames[i].finished})

_check_runnable_le(frames, lim) == qty_running(frames) <= lim

\* YTD_Widget._check_runnable
_check_runnable(frames, lim) == qty_running(frames) < lim

unique_always(frames, URL) == TRUE

\* the flag "unique" of _check_loop
unique(frames, URL) == \A i \in DOMAIN frames : frames[i].URL # URL

\* DLFrame(...) as _check_loop constructs it
DLFrame(URL, start_immediately, ac) ==
    IF start_immediately THEN _retry(NewFrame(URL, ac)) ELSE NewFrame(URL, ac)

\* First loop of _check_loop, over the URLs in the order `order`.
RECURSIVE AddFrames(_, _, _)
AddFrames(frames, order, k) ==
    IF k > Len(order)
    THEN frames
    ELSE IF unique(frames, order[k])
         THEN AddFrames(
                  Append(frames,
                         DLFrame(order[k], _check_runnable(frames, parallel_lim),
                                 autoclose)),
                  order, k + 1)
         ELSE AddFrames(frames, order, k + 1)

\* Second loop of _check_loop: the list iterator is at index i. Removing
\* the element at i moves the next one to i, and the iterator goes on at
\* i + 1. Reading F.closed on a frame whose close() never ran raises
\* AttributeError, which ends the pass.
RECURSIVE Sweep(_, _)
Sweep(frames, i) ==
    IF i > Len(frames)
    THEN [frames |-> frames, raised |-> FALSE]
    ELSE LET F == frames[i] IN
         IF F.finished /\ F.can_close
         THEN IF F.closed = "unset"
              THEN [frames |-> frames, raised |-> TRUE]
              ELSE Sweep(RemoveAt(frames, i), i + 1)
         ELSE IF ~F.started /\ _check_runnable(frames, parallel_lim)
              THEN Sweep([frames EXCEPT ![i] = _retry(F)], i + 1)
              ELSE Sweep(frames, i + 1)

\* YTD_Widget.add_download: URLstr holds the stripped fields of the URL box,
\* and each field that is not empty is added to the set.
add_download(URLstr) ==
    /\ URLs' = URLs \cup {URL \in URLstr : URL # 0}
    /\ UNCHANGED <<dl_frames, parallel_lim, autoclose, timer, normvars, mdvars, auxvars>>

\* YTD_Widget._check_loop, one pass run by the timer.
_check_loop ==
    /\ timer
    /\ \E order \in Orders(URLs) :
          LET added == AddFrames(dl_frames, order, 1)
              swept == Sweep(added, 1)
          IN /\ dl_frames' = swept.frames
             /\ timer' = ~swept.raised
    /\ URLs' = {}
    /\ UNCHANGED <<parallel_lim, autoclose, normvars, mdvars, auxvars>>

\* The button of frame i while it is connected to _retry ("Start").
PressStart(i) ==
    /\ dl_frames[i].button = "_retry"
    /\ dl_frames' = [dl_frames EXCEPT ![i] = _retry(@)]
    /\ UNCHANGED <<URLs, parallel_lim, autoclose, timer, normvars, mdvars, auxvars>>

_cancel_thread_finishes(F) ==
    [F EXCEPT !.button = "close", !.th = "dead", !.exc = <<>>,
              !.finished = TRUE]

\* DLFrame._cancel_thread after th.raiseExc returned.
_cancel_thread(F) ==
    [F EXCEPT !.button = "close", !.th = "dead", !.exc = <<>>]

\* The button of frame i while it is connected to _cancel_thread. The
\* KeyboardInterrupt ends a live thread before its next statement. On a
\* thread that has ended raiseExc either raises, which ends the handler
\* at its first line, or returns.
PressCancel(i) ==
    /\ dl_frames[i].button = "_cancel_thread"
    /\ \/ dl_frames' = [dl_frames EXCEPT ![i] = _cancel_thread(@)]
       \/ /\ dl_frames[i].th = "dead"
          /\ dl_frames' = dl_frames
    /\ UNCHANGED <<URLs, parallel_lim, autoclose, timer, normvars, mdvars, auxvars>>

\* DLFrame.close
close(F) == [F EXCEPT !.closed = "True", !.finished = TRUE, !.can_close = TRUE]

\* The button of frame i while it is connected to close ("OK").
PressOK(i) ==
    /\ dl_frames[i].button = "close"
    /\ dl_frames' = [dl_frames EXCEPT ![i] = close(@)]
    /\ UNCHANGED <<URLs, parallel_lim, autoclose, timer, normvars, mdvars, auxvars>>

\* _dl: ytd returned; the label, finished and the button are set.
DlSucceed(i) ==
    /\ dl_frames[i].th = "ytd"
    /\ dl_frames' = [dl_frames EXCEPT ![i] =
           [@ EXCEPT !.finished = TRUE, !.button = "close", !.th = "dead"]]
    /\ UNCHANGED <<URLs, parallel_lim, autoclose, timer, normvars, mdvars, auxvars>>

error_ERROR_first(F, msg) ==
    IF Contains(msg, "ERROR")
    THEN [F EXCEPT !.button = "close", !.can_run = FALSE, !.finished = TRUE]
    ELSE F

error_no_finished(F, msg) ==
    IF ~Contains(msg, "unable") /\ Contains(msg, "ERROR")
    THEN [F EXCEPT !.button = "close", !.can_run = FALSE]
    ELSE F

\* DLFrame.error
error(F, msg) ==
    IF Contains(msg, "unable")
    THEN F
    ELSE IF Contains(msg, "ERROR")
         THEN [F EXCEPT !.button = "close", !.can_run = FALSE, !.finished = TRUE]
         ELSE F

\* DLFrame.error up to and including "self.can_run = False": the download
\* thread has not yet assigned finished.
error_can_run(F, msg) ==
    IF Contains(msg, "unable")
    THEN F
    ELSE IF Contains(msg, "ERROR")
         THEN [F EXCEPT !.button = "close", !.can_run = FALSE]
         ELSE F

\* ytd reports msg through logger.error, which runs on the download
\* thread: the thread is in DLFrame.error, before "self.finished = True".
DlErrorEnter(i, msg) ==
    /\ dl_frames[i].th = "ytd"
    /\ dl_frames' = [dl_frames EXCEPT ![i] =
           [error_can_run(@, msg) EXCEPT !.th = "error", !.exc = msg]]
    /\ UNCHANGED <<URLs, parallel_lim, autoclose, timer, normvars, mdvars, auxvars>>

\* DLFrame.error returns and ytd raises DownloadError(msg).
DlError(i) ==
    /\ dl_frames[i].th = "error"
    /\ dl_frames' = [dl_frames EXCEPT ![i] =
           [error(@, dl_frames[i].exc) EXCEPT !.th = "raising"]]
    /\ UNCHANGED <<URLs, parallel_lim, autoclose, timer, normvars, mdvars, auxvars>>

\* _dl: except DownloadError: self.started = False
DlRaise(i) ==
    /\ dl_frames[i].th = "raising"
    /\ dl_frames' = [dl_frames EXCEPT ![i] =
           [@ EXCEPT !.started = FALSE, !.th = "handled", !.exc = <<>>]]
    /\ UNCHANGED <<URLs, parallel_lim, autoclose, timer, normvars, mdvars, auxvars>>

\* _dl: if self.finished: ..., and the thread ends.
DlExit(i) ==
    /\ dl_frames[i].th = "handled"
    /\ dl_frames' = [dl_frames EXCEPT ![i] =
           [@ EXCEPT !.button = IF dl_frames[i].finished THEN "close" ELSE @,
                     !.th = "dead"]]
    /\ UNCHANGED <<URLs, parallel_lim, autoclose, timer, normvars, mdvars, auxvars>>

DLInit ==
    /\ URLs = {}
    /\ dl_frames = <<>>
    /\ parallel_lim \in 1..MaxLim
    /\ autoclose \in BOOLEAN
    /\ timer = TRUE

Next ==
    \/ \E URLstr \in SUBSET Fields : add_download(URLstr)
    \/ _check_loop
    \/ \E i \in DOMAIN dl_frames : PressStart(i)
    \/ \E i \in DOMAIN dl_frames : PressCancel(i)
    \/ \E i \in DOMAIN dl_frames : PressOK(i)
    \/ \E i \in DOMAIN dl_frames : DlSucceed(i)
    \/ \E i \in DOMAIN dl_frames : \E msg \in Msgs : DlErrorEnter(i, msg)
    \/ \E i \in DOMAIN dl_frames : DlError(i)
    \/ \E i \in DOMAIN dl_frames : DlRaise(i)
    \/ \E i \in DOMAIN dl_frames : DlExit(i)

\* ===================================================================
\* Loudness normalisation: NormWorkerThread and NormalizerWindow
\* ===================================================================

Song == 1..songs

\* How normalising a file ends: it is rewritten ("ok"), AudioSegment.from_mp3
\* raises CouldntDecodeError ("decode"), or export / set_normalized raises
\* PermissionError ("perm").
Failures == {"ok", "decode", "perm"}

_norm_no_except(fail) ==
    IF fail = "ok"
    THEN [raised |-> FALSE, normalized |-> TRUE]
    ELSE [raised |-> TRUE, normalized |-> FALSE]

\* utils._norm: whether the call raises, and whether the file now carries
\* the tag Norm=True.
_norm(fail) ==
    IF fail = "decode"
    THEN [raised |-> FALSE, normalized |-> FALSE]
    ELSE IF fail = "perm"
         THEN [raised |-> FALSE, normalized |-> FALSE]
         ELSE [raised |-> FALSE, normalized |-> TRUE]

\* Signals in normLog that report one processed item.
IsProgress(e) == e \in {"check_progress", "norm_progress"}

Count(log, e) == Cardinality({i \in DOMAIN log : log[i] = e})

ProgressEmitted == Cardinality({i \in DOMAIN normLog : IsProgress(normLog[i])})

is_set_never(ev) == FALSE

\* self.interrupt_event.is_set()
is_set(ev) == ev

\* NormWorkerThread.run, first loop: check_normalized is called on the
\* next song. The event is not looked at here.
NormCheckStart ==
    /\ wpc = "check"
    /\ checked < songs
    /\ wpc' = "checking"
    /\ UNCHANGED <<songs, unnormalized, failure, song_file, checked,
                   to_convert, converted,
                   normLog, normRead, _interrupt_event, _ignore_updates,
                   _check_progress, _norm_progress, cancel_button, norm_event,
                   thread_finished, win, setAt, dlvars, mdvars, auxvars>>

\* ... check_normalized returns, the song is appended to to_convert when it
\* is not normalised, and check_progress is emitted.
NormCheck ==
    /\ wpc = "checking"
    /\ checked' = checked + 1
    /\ to_convert' = IF checked + 1 \in unnormalized
                     THEN Append(to_convert, checked + 1)
                     ELSE to_convert
    /\ normLog' = Append(normLog, "check_progress")
    /\ wpc' = "check_poll"
    /\ UNCHANGED <<songs, unnormalized, failure, song_file, converted, normRead,
                   _interrupt_event, _ignore_updates, _check_progress,
                   _norm_progress, cancel_button, norm_event, thread_finished,
                   win, setAt, dlvars, mdvars, auxvars>>

\* ... "if self.interrupt_event.is_set(): self.finished.emit(); return"
NormCheckPoll ==
    /\ wpc = "check_poll"
    /\ IF is_set(_interrupt_event)
       THEN /\ normLog' = Append(normLog, "finished")
            /\ wpc' = "returned"
       ELSE /\ normLog' = normLog
            /\ wpc' = "check"
    /\ UNCHANGED <<songs, unnormalized, failure, song_file, checked,
                   to_convert, converted,
                   normRead, _interrupt_event, _ignore_updates, _check_progress,
                   _norm_progress, cancel_button, norm_event, thread_finished,
                   win, setAt, dlvars, mdvars, auxvars>>

\* NormWorkerThread.run after the first loop: convert_qty is emitted; with
\* nothing to convert done and finished follow, otherwise the pool is
\* created and every item of to_convert is handed to it.
NormQty ==
    /\ wpc = "check"
    /\ checked = songs
    /\ IF Len(to_convert) > 0
       THEN /\ normLog' = Append(normLog, "convert_qty")
            /\ wpc' = "norm"
       ELSE /\ normLog' = normLog \o <<"convert_qty", "done", "finished">>
            /\ wpc' = "returned"
    /\ UNCHANGED <<songs, unnormalized, failure, song_file, checked,
                   to_convert, converted,
                   normRead, _interrupt_event, _ignore_updates, _check_progress,
                   _norm_progress, cancel_button, norm_event, thread_finished,
                   win, setAt, dlvars, mdvars, auxvars>>

\* Pool.terminate, run by "with Pool(...) as p" when run leaves the block:
\* the worker processes are killed, and a file one of them was writing
\* stays as far as it was written.
terminate(files) ==
    [s \in DOMAIN files |-> IF files[s] = "writing" THEN "partial" ELSE files[s]]

\* _norm in a process of the pool: tmp.export(path, format="mp3") starts to
\* write the normalised audio to the song's own path.
PoolExport(s) ==
    /\ wpc \in {"norm", "norm_poll"}
    /\ s \in Range(to_convert) \ converted
    /\ failure[s] = "ok"
    /\ song_file[s] = "old"
    /\ song_file' = [song_file EXCEPT ![s] = "writing"]
    /\ UNCHANGED <<songs, unnormalized, failure, wpc, checked, to_convert,
                   converted, normLog, normRead, _interrupt_event,
                   _ignore_updates, _check_progress, _norm_progress,
                   cancel_button, norm_event, thread_finished, win, setAt,
                   dlvars, mdvars, auxvars>>

\* ... export and set_normalized have returned.
PoolExportDone(s) ==
    /\ wpc \in {"norm", "norm_poll"}
    /\ song_file[s] = "writing"
    /\ song_file' = [song_file EXCEPT ![s] = "written"]
    /\ UNCHANGED <<songs, unnormalized, failure, wpc, checked, to_convert,
                   converted, normLog, normRead, _interrupt_event,
                   _ignore_updates, _check_progress, _norm_progress,
                   cancel_button, norm_event, thread_finished, win, setAt,
                   dlvars, mdvars, auxvars>>

\* NormWorkerThread.run, second loop: imap_unordered yields the result of
\* _norm for item s (in any order) and norm_progress is emitted. An
\* exception of _norm is raised again by the iterator and ends run.
NormResult(s) ==
    /\ wpc = "norm"
    /\ s \in Range(to_convert) \ converted
    /\ song_file[s] # "writing"
    /\ failure[s] = "ok" => song_file[s] = "written"
    /\ LET r == _norm(failure[s]) IN
       IF r.raised
       THEN /\ wpc' = "raised"
            /\ UNCHANGED <<normLog, converted, unnormalized>>
       ELSE /\ normLog' = Append(normLog, "norm_progress")
            /\ wpc' = "norm_poll"
            /\ converted' = converted \cup {s}
            /\ unnormalized' = IF r.normalized
                               THEN unnormalized \ {s}
                               ELSE unnormalized
    /\ UNCHANGED <<songs, failure, song_file, checked, to_convert, normRead,
                   _interrupt_event, _ignore_updates, _check_progress,
                   _norm_progress, cancel_button, norm_event, thread_finished,
                   win, setAt, dlvars, mdvars, auxvars>>

\* ... "if self.interrupt_event.is_set(): self.finished.emit(); return",
\* and after the last result "self.done.emit(); self.finished.emit()".
NormPoll ==
    /\ wpc = "norm_poll"
    /\ song_file' = IF is_set(_interrupt_event) THEN terminate(song_file)
                    ELSE song_file
    /\ IF is_set(_interrupt_event)
       THEN /\ normLog' = Append(normLog, "finished")
            /\ wpc' = "returned"
       ELSE IF converted = Range(to_convert)
            THEN /\ normLog' = normLog \o <<"done", "finished">>
                 /\ wpc' = "returned"
            ELSE /\ normLog' = normLog
                 /\ wpc' = "norm"
    /\ UNCHANGED <<songs, unnormalized, failure, checked, to_convert, converted,
                   normRead, _interrupt_event, _ignore_updates, _check_progress,
                   _norm_progress, cancel_button, norm_event, thread_finished,
                   win, setAt, dlvars, mdvars, auxvars>>

\* The next queued signal of the worker, handled by the UI thread unless
\* it is blocked in close().
Pending(e) ==
    /\ win # "closing"
    /\ normRead < Len(normLog)
    /\ normLog[normRead + 1] = e
    /\ normRead' = normRead + 1

_increment_skips_flag(flag, counter) == counter + 1

\* the counter after _increment_check_progress / _increment_norm_progress
_increment(flag, counter) == IF flag THEN counter ELSE counter + 1

\* NormalizerWindow._increment_check_progress
_increment_check_progress ==
    /\ Pending("check_progress")
    /\ _check_progress' = _increment(_ignore_updates, _check_progress)
    /\ UNCHANGED <<songs, unnormalized, failure, song_file, wpc, checked,
                   to_convert,
                   converted, normLog, _interrupt_event, _ignore_updates,
                   _norm_progress, cancel_button, norm_event, thread_finished,
                   win, setAt, dlvars, mdvars, auxvars>>

\* NormalizerWindow._increment_norm_progress
_increment_norm_progress ==
    /\ Pending("norm_progress")
    /\ _norm_progress' = _increment(_ignore_updates, _norm_progress)
    /\ UNCHANGED <<songs, unnormalized, failure, song_file, wpc, checked,
                   to_convert,
                   converted, normLog, _interrupt_event, _ignore_updates,
                   _check_progress, cancel_button, norm_event, thread_finished,
                   win, setAt, dlvars, mdvars, auxvars>>

_to_convert_update_any_qty ==
    /\ Pending("convert_qty")
    /\ cancel_button' = Append(cancel_button, "_cancel_thread")
    /\ UNCHANGED <<songs, unnormalized, failure, song_file, wpc, checked,
                   to_convert,
                   converted, normLog, _interrupt_event, _ignore_updates,
                   _check_progress, _norm_progress, norm_event, thread_finished,
                   win, setAt, dlvars, mdvars, auxvars>>

\* NormalizerWindow._to_convert_update(qty), qty = len(to_convert)
_to_convert_update ==
    /\ Pending("convert_qty")
    /\ cancel_button' = IF Len(to_convert) > 0
                        THEN Append(cancel_button, "_cancel_thread")
                        ELSE cancel_button
    /\ UNCHANGED <<songs, unnormalized, failure, song_file, wpc, checked,
                   to_convert,
                   converted, normLog, _interrupt_event, _ignore_updates,
                   _check_progress, _norm_progress, norm_event, thread_finished,
                   win, setAt, dlvars, mdvars, auxvars>>

\* NormalizerWindow._done as the slot of worker.done
_done ==
    /\ Pending("done")
    /\ cancel_button' = <<"close">>
    /\ UNCHANGED <<songs, unnormalized, failure, song_file, wpc, checked,
                   to_convert,
                   converted, normLog, _interrupt_event, _ignore_updates,
                   _check_progress, _norm_progress, norm_event, thread_finished,
                   win, setAt, dlvars, mdvars, auxvars>>

\* worker.finished: thread.quit ends the worker's thread.
ThreadQuit ==
    /\ Pending("finished")
    /\ thread_finished' = TRUE
    /\ UNCHANGED <<songs, unnormalized, failure, song_file, wpc, checked,
                   to_convert,
                   converted, normLog, _interrupt_event, _ignore_updates,
                   _check_progress, _norm_progress, cancel_button, norm_event,
                   win, setAt, dlvars, mdvars, auxvars>>

SetEvent_clearing(ev) == ~ev

\* Event.set()
SetEvent(ev) == TRUE

\* NormalizerWindow._cancel_thread. The percentage divides by
\* len(self.songs): with no songs ZeroDivisionError ends the handler after
\* its first two lines. raised tells the caller.
CancelThread ==
    /\ _interrupt_event' = SetEvent(_interrupt_event)
    /\ _ignore_updates' = TRUE
    /\ setAt' = IF _interrupt_event THEN setAt ELSE ProgressEmitted
    /\ cancel_button' = IF songs = 0 THEN cancel_button ELSE <<"close">>

\* NormalizerWindow.close after norm_event.clear()
Close ==
    /\ norm_event' = FALSE
    /\ IF thread_finished
       THEN /\ win' = "closed"
            /\ UNCHANGED <<_interrupt_event, _ignore_updates, setAt,
                           cancel_button, thread_finished>>
       ELSE /\ CancelThread
            /\ IF songs = 0
               THEN UNCHANGED <<win, thread_finished>>
               ELSE IF wpc \in {"returned", "raised"}
                    THEN win' = "closed" /\ thread_finished' = TRUE
                    ELSE win' = "closing" /\ UNCHANGED thread_finished

\* cancel_button pressed while _cancel_thread is connected to it
PressCancelButton ==
    /\ win = "open"
    /\ cancel_button = <<"_cancel_thread">>
    /\ CancelThread
    /\ UNCHANGED <<songs, unnormalized, failure, song_file, wpc, checked,
                   to_convert,
                   converted, normLog, normRead, _check_progress, _norm_progress,
                   norm_event, thread_finished, win, dlvars, mdvars, auxvars>>

\* cancel_button pressed while nothing is connected to it
PressUnconnected ==
    /\ win = "open"
    /\ cancel_button = <<>>
    /\ UNCHANGED vars

\* cancel_button pressed while close is connected to it ("Ok")
PressOkButton ==
    /\ win = "open"
    /\ cancel_button = <<"close">>
    /\ Close
    /\ UNCHANGED <<songs, unnormalized, failure, song_file, wpc, checked,
                   to_convert,
                   converted, normLog, normRead, _check_progress, _norm_progress,
                   dlvars, mdvars, auxvars>>

\* TitleBar._close: self.parent.close()
TitleBarClose ==
    /\ win = "open"
    /\ Close
    /\ UNCHANGED <<songs, unnormalized, failure, song_file, wpc, checked,
                   to_convert,
                   converted, normLog, normRead, _check_progress, _norm_progress,
                   dlvars, mdvars, auxvars>>

\* close(): thread.wait() returns once run has ended, then super().close()
CloseWait ==
    /\ win = "closing"
    /\ wpc \in {"returned", "raised"}
    /\ win' = "closed"
    /\ thread_finished' = TRUE
    /\ UNCHANGED <<songs, unnormalized, failure, song_file, wpc, checked,
                   to_convert,
                   converted, normLog, normRead, _interrupt_event,
                   _ignore_updates, _check_progress, _norm_progress,
                   cancel_button, norm_event, setAt, dlvars, mdvars, auxvars>>

\* NormalizerWindow.__init__, which ends with normalize(): the worker is
\* at the top of run.
NormInit ==
    /\ songs \in 0..MaxSongs
    /\ unnormalized \in SUBSET (1..songs)
    /\ failure \in [1..songs -> Failures]
    /\ song_file = [s \in 1..songs |-> "old"]
    /\ wpc = "check"
    /\ checked = 0
    /\ to_convert = <<>>
    /\ converted = {}
    /\ normLog = <<>>
    /\ normRead = 0
    /\ _interrupt_event = FALSE
    /\ _ignore_updates = FALSE
    /\ _check_progress = 0
    /\ _norm_progress = 0
    /\ cancel_button = <<>>
    /\ norm_event = TRUE
    /\ thread_finished = FALSE
    /\ win = "open"
    /\ setAt = -1

\* No NormalizerWindow exists.
NormIdle ==
    /\ songs = 0
    /\ unnormalized = {}
    /\ failure = <<>>
    /\ song_file = <<>>
    /\ wpc = "returned"
    /\ checked = 0
    /\ to_convert = <<>>
    /\ converted = {}
    /\ normLog = <<>>
    /\ normRead = 0
    /\ _interrupt_event = FALSE
    /\ _ignore_updates = FALSE
    /\ _check_progress = 0
    /\ _norm_progress = 0
    /\ cancel_button = <<>>
    /\ norm_event = FALSE
    /\ thread_finished = TRUE
    /\ win = "closed"
    /\ setAt = -1

NormNext ==
    \/ NormCheckStart
    \/ NormCheck
    \/ NormCheckPoll
    \/ NormQty
    \/ \E s \in Song : PoolExport(s)
    \/ \E s \in Song : PoolExportDone(s)
    \/ \E s \in Song : NormResult(s)
    \/ NormPoll
    \/ _increment_check_progress
    \/ _increment_norm_progress
    \/ _to_convert_update
    \/ _done
    \/ ThreadQuit
    \/ PressCancelButton
    \/ PressUnconnected
    \/ PressOkButton
    \/ TitleBarClose
    \/ CloseWait

\* ===================================================================
\* Metadata scan: MetadataWorkerThread and LoadingBarWindow
\* ===================================================================

\* What MP3(path) makes of a file: "noheader" when it raises
\* HeaderNotFoundError, "notags" when it returns a file whose tags are None
\* (no ID3 header), "ok" otherwise.
FileKinds == {"ok", "noheader", "notags"}

FileKind(s) == IF s \in mdBad THEN "noheader"
               ELSE IF s \in mdNoTags THEN "notags" ELSE "ok"

\* read_metadata(path): the placeholder [0, "Unknown", None] for a file
\* MP3() finds no header in, the duration and tags of a tagged file, and
\* for tags = None the AttributeError of tags.keys().
read_metadata(kind) ==
    IF kind = "noheader" THEN "placeholder"
    ELSE IF kind = "notags" THEN "AttributeError" ELSE "tags"

load_metadata_always_starts(n) == TRUE

\* the test "len(self.songs) > 0" of load_metadata
load_metadata_starts(n) == n > 0

\* LoadingBarWindow.load_metadata: the worker is started if there are songs.
\* mdpc is "absent" without a window, "none" before the call, "idle" after
\* a call that started no worker, "raised" after an exception in run, "run" while MetadataWorkerThread.run is in its loop and
\* "returned" after it.
load_metadata ==
    /\ mdpc = "none"
    /\ IF load_metadata_starts(mdSongs)
       THEN _running' = TRUE /\ mdpc' = "run"
       ELSE _running' = _running /\ mdpc' = "idle"
    /\ UNCHANGED <<mdSongs, mdBad, mdNoTags, mdDone, mdLog, mdRead, _progress, hidden,
                   mdOut, out, dlvars, normvars, auxvars>>

\* MetadataWorkerThread.run, one pass of the loop. An exception of
\* read_metadata ends run ("raised") before anything more is emitted.
MdItem ==
    /\ mdpc = "run"
    /\ mdDone < mdSongs
    /\ LET data == read_metadata(FileKind(mdDone + 1)) IN
       IF data = "AttributeError"
       THEN /\ mdpc' = "raised"
            /\ UNCHANGED <<out, mdDone, mdLog>>
       ELSE /\ out' = Append(out, data)
            /\ mdDone' = mdDone + 1
            /\ mdLog' = Append(mdLog, "progress")
            /\ mdpc' = mdpc
    /\ UNCHANGED <<mdSongs, mdBad, mdNoTags, mdRead, _progress, _running,
                   hidden, mdOut, dlvars, normvars, auxvars>>

\* MetadataWorkerThread.run after the loop
MdEnd ==
    /\ mdpc = "run"
    /\ mdDone = mdSongs
    /\ mdLog' = mdLog \o <<"data", "done", "finished">>
    /\ mdpc' = "returned"
    /\ UNCHANGED <<mdSongs, mdBad, mdNoTags, mdDone, mdRead, _progress, _running, hidden,
                   mdOut, out, dlvars, normvars, auxvars>>

\* The next queued signal of the metadata worker, handled by the UI thread.
MdPending(e) ==
    /\ mdRead < Len(mdLog)
    /\ mdLog[mdRead + 1] = e
    /\ mdRead' = mdRead + 1

\* LoadingBarWindow._increment_progress
_increment_progress ==
    /\ MdPending("progress")
    /\ _progress' = _progress + 1
    /\ UNCHANGED <<mdSongs, mdBad, mdNoTags, mdpc, mdDone, mdLog, _running, hidden, mdOut,
                   out, dlvars, normvars, auxvars>>

\* LoadingBarWindow._done(data): self.done.emit(data)
MdData ==
    /\ MdPending("data")
    /\ _running' = FALSE
    /\ mdOut' = Append(mdOut, out)
    /\ UNCHANGED <<mdSongs, mdBad, mdNoTags, mdpc, mdDone, mdLog, _progress, hidden, out,
                   dlvars, normvars, auxvars>>

\* worker.done: LoadingBarWindow.hide
MdHide ==
    /\ MdPending("done")
    /\ hidden' = TRUE
    /\ UNCHANGED <<mdSongs, mdBad, mdNoTags, mdpc, mdDone, mdLog, _progress, _running,
                   mdOut, out, dlvars, normvars, auxvars>>

\* worker.finished: thread.quit
MdQuit ==
    /\ MdPending("finished")
    /\ UNCHANGED <<mdSongs, mdBad, mdNoTags, mdpc, mdDone, mdLog, _progress, _running,
                   hidden, mdOut, out, dlvars, normvars, auxvars>>

\* LoadingBarWindow.__init__: find_songs has found mdSongs files.
MdInit ==
    /\ mdSongs \in 0..MaxFiles
    /\ mdBad \in SUBSET (1..mdSongs)
    /\ mdNoTags \in SUBSET ((1..mdSongs) \ mdBad)
    /\ mdpc = "none"
    /\ mdDone = 0
    /\ mdLog = <<>>
    /\ mdRead = 0
    /\ _progress = 0
    /\ _running = FALSE
    /\ hidden = FALSE
    /\ mdOut = <<>>
    /\ out = <<>>

\* No LoadingBarWindow exists.
MdIdle ==
    /\ mdSongs = 0
    /\ mdBad = {}
    /\ mdNoTags = {}
    /\ mdpc = "absent"
    /\ mdDone = 0
    /\ mdLog = <<>>
    /\ mdRead = 0
    /\ _progress = 0
    /\ _running = FALSE
    /\ hidden = FALSE
    /\ mdOut = <<>>
    /\ out = <<>>

MdNext ==
    \/ load_metadata
    \/ MdItem
    \/ MdEnd
    \/ _increment_progress
    \/ MdData
    \/ MdHide
    \/ MdQuit

\* ===================================================================
\* Trimming a song: TrimWorkerThread and TrimSongWindow
\* ===================================================================

TrimWorker == DOMAIN trim_workers

\* Values of the range slider: setRange(-1, duration + 1).
SliderValues == {<<L, R>> \in ((0 - 1)..(Duration + 1)) \X ((0 - 1)..(Duration + 1)) : L <= R}

\* The slider is moved while slider_frame is shown.
TrimMove(v) ==
    /\ trWin = "open"
    /\ pos_slider' = v
    /\ UNCHANGED <<trWin, trim_workers, _trimming_event, _message_label,
                   selection, nontrimvars>>

\* TrimSongWindow.close
TrimClose ==
    /\ _trimming_event' = FALSE
    /\ trWin' = "closed"

\* TrimSongWindow._trim_song. A worker started while an earlier one is
\* still running replaces self.worker and self.thread.
_trim_song ==
    LET L == pos_slider[1]
        R == pos_slider[2]
    IN IF L <= 0 /\ R >= Duration
       THEN /\ _message_label' = "No trimming performed"
            /\ TrimClose
            /\ UNCHANGED <<pos_slider, trim_workers, selection>>
       ELSE /\ Len(trim_workers) < MaxTrims
            /\ trWin' = "processing"
            /\ trim_workers' = Append(trim_workers,
                   [pc |-> "process", exitcode |-> 0, handled |-> FALSE])
            /\ UNCHANGED <<pos_slider, _trimming_event, _message_label, selection>>

\* confirm_button pressed; the button is inside slider_frame.
TrimConfirm ==
    /\ trWin = "open"
    /\ _trim_song
    /\ UNCHANGED <<nontrimvars>>

\* keyPressEvent with Qt.Key_Enter, which the window also gets while
\* "Processing..." is shown.
TrimKeyEnter ==
    /\ trWin \in {"open", "processing"}
    /\ _trim_song
    /\ UNCHANGED <<nontrimvars>>

\* utils.trim_song in the child process: the exit code of the process, 0
\* when trim_song returns and 1 when from_mp3 or export raises.
trim_song(raises) == IF raises THEN 1 ELSE 0

\* TrimWorkerThread.run: p.start(); p.join() returns when the child has
\* exited.
TrimJoin(i, raises) ==
    /\ trim_workers[i].pc = "process"
    /\ trim_workers' = [trim_workers EXCEPT ![i].pc = "joined",
                                            ![i].exitcode = trim_song(raises)]
    /\ UNCHANGED <<trWin, pos_slider, _trimming_event, _message_label,
                   selection, nontrimvars>>

\* TrimWorkerThread.run: self.done.emit()
TrimEmit(i) ==
    /\ trim_workers[i].pc = "joined"
    /\ trim_workers' = [trim_workers EXCEPT ![i].pc = "emitted"]
    /\ UNCHANGED <<trWin, pos_slider, _trimming_event, _message_label,
                   selection, nontrimvars>>

\* TrimSongWindow._done as the slot of worker i's done signal. The cell
\* shows sec_to_HMS(R - L), kept here as the number of seconds.
Trim_done(i) ==
    /\ trim_workers[i].pc = "emitted"
    /\ ~trim_workers[i].handled
    /\ trim_workers' = [trim_workers EXCEPT ![i].handled = TRUE]
    /\ selection' = pos_slider[2] - pos_slider[1]
    /\ _message_label' = "Trimmed"
    /\ TrimClose
    /\ UNCHANGED <<pos_slider, nontrimvars>>

\* cancel_button pressed; the button is inside slider_frame.
TrimCancel ==
    /\ trWin = "open"
    /\ TrimClose
    /\ UNCHANGED <<pos_slider, trim_workers, _message_label, selection,
                   nontrimvars>>

\* The close button of the title bar.
TrimTitleBarClose ==
    /\ trWin \in {"open", "processing"}
    /\ TrimClose
    /\ UNCHANGED <<pos_slider, trim_workers, _message_label, selection,
                   nontrimvars>>

\* TrimSongWindow.__init__
TrimInit ==
    /\ trWin = "open"
    /\ pos_slider = <<0, Duration>>
    /\ trim_workers = <<>>
    /\ _trimming_event = TRUE
    /\ _message_label = ""
    /\ selection = Duration

\* No trim window.
TrimIdle ==
    /\ trWin = "absent"
    /\ pos_slider = <<0, Duration>>
    /\ trim_workers = <<>>
    /\ _trimming_event = FALSE
    /\ _message_label = ""
    /\ selection = Duration

TrimNext ==
    \/ \E v \in SliderValues : TrimMove(v)
    \/ TrimConfirm
    \/ TrimKeyEnter
    \/ \E i \in TrimWorker : \E raises \in BOOLEAN : TrimJoin(i, raises)
    \/ \E i \in TrimWorker : TrimEmit(i)
    \/ \E i \in TrimWorker : Trim_done(i)
    \/ TrimCancel
    \/ TrimTitleBarClose

\* ===================================================================
\* Tags of a file: write_metadata and read_metadata
\* ===================================================================

\* Python values passed as genre and year: a string or None.
Str(text) == <<"str", text>>
None == <<"None", "">>
Texts == {"Rock", "1999", "None", ""}
PyValues == {Str(text) : text \in Texts} \cup {None}

\* File names, as the list name.split(".").
Names == {<<"a", "mp3">>, <<"b", "mp3">>}

tmp_name_same(original_name) == original_name

\* tmp_name of write_metadata: "_TMP" is appended to the part before the
\* first dot.
tmp_name(original_name) ==
    <<original_name[1] \o "_TMP">> \o Tail(original_name)

Paths == Names \cup {tmp_name(n) : n \in Names}

\* A file: audio is "absent", "partial" (being written) or "complete"; TCON
\* and Year are the texts of the tags TCON and TXXX:Year, Absent without
\* the tag.
Absent == <<"absent">>
NoFile == [audio |-> "absent", TCON |-> Absent, Year |-> Absent]
PartialFile == [audio |-> "partial", TCON |-> Absent, Year |-> Absent]

\* An f-string field: str(value).
fstr(value) == IF value = None THEN "None" ELSE value[2]

metadata_swapped(genre, year) == [Year |-> fstr(genre), Genre |-> fstr(year)]

\* The two -metadata options of write_metadata.
metadata(genre, year) == [Year |-> fstr(year), Genre |-> fstr(genre)]

\* Tags ffmpeg can write for -metadata key=text: the tag with the text, or
\* for an empty text no tag.
Written(text) == IF text = "" THEN {Absent, <<"tag", "">>} ELSE {<<"tag", text>>}

\* read_metadata(path) on a file: genre and year of [duration, genre, year].
read_metadata_tags(file) ==
    IF file.audio # "complete"
    THEN <<Str("Unknown"), None>>
    ELSE <<IF file.TCON = Absent THEN Str("Unknown") ELSE Str(file.TCON[2]),
           IF file.Year = Absent THEN None ELSE Str(file.Year[2])>>

\* write_metadata: ffmpeg.run opens the output file; without the input
\* file it raises ffmpeg.Error.
WmFfmpegStart ==
    /\ wm_pc = "called"
    /\ IF disk[wm_args.songname].audio = "complete"
       THEN /\ disk' = [disk EXCEPT ![tmp_name(wm_args.songname)] = PartialFile]
            /\ wm_pc' = "ffmpeg"
       ELSE /\ disk' = disk
            /\ wm_pc' = "raised"
    /\ UNCHANGED <<wm_args, readback, nontagvars>>

\* ... ffmpeg.run returns: the output file is the copy with the new tags.
WmFfmpegFinish ==
    /\ wm_pc = "ffmpeg"
    /\ LET m == metadata(wm_args.genre, wm_args.year) IN
       \E g \in Written(m.Genre), y \in Written(m.Year) :
           disk' = [disk EXCEPT ![tmp_name(wm_args.songname)] =
                       [audio |-> "complete", TCON |-> g, Year |-> y]]
    /\ wm_pc' = "replace"
    /\ UNCHANGED <<wm_args, readback, nontagvars>>

\* ... ffmpeg.run raises ffmpeg.Error while the output is being written.
WmFfmpegFail ==
    /\ wm_pc = "ffmpeg"
    /\ wm_pc' = "raised"
    /\ UNCHANGED <<disk, wm_args, readback, nontagvars>>

\* ... os.replace(tmp_name, original_name)
WmReplace ==
    /\ wm_pc = "replace"
    /\ LET o == wm_args.songname
           t == tmp_name(o)
       IN disk' = [p \in Paths |-> IF p = o THEN disk[t]
                                   ELSE IF p = t THEN NoFile ELSE disk[p]]
    /\ wm_pc' = "returned"
    /\ UNCHANGED <<wm_args, readback, nontagvars>>

\* ... os.replace raises OSError (the file is in use).
WmReplaceFail ==
    /\ wm_pc = "replace"
    /\ wm_pc' = "raised"
    /\ UNCHANGED <<disk, wm_args, readback, nontagvars>>

\* read_metadata on the file after write_metadata has returned.
ReadBack ==
    /\ wm_pc = "returned"
    /\ readback = <<>>
    /\ readback' = read_metadata_tags(disk[wm_args.songname])
    /\ UNCHANGED <<disk, wm_pc, wm_args, nontagvars>>

\* Files of the music folder before the call: song files with a genre tag
\* or none, and no temporary file.
SongFiles == {[audio |-> "complete", TCON |-> g, Year |-> Absent] :
                  g \in {Absent, <<"tag", "Pop">>}} \cup {NoFile}

TagInit ==
    /\ disk \in {d \in [Paths -> SongFiles] :
                    \A p \in Paths \ Names : d[p] = NoFile}
    /\ wm_pc = "called"
    /\ wm_args \in [songname : Names, genre : PyValues, year : PyValues]
    /\ readback = <<>>

\* write_metadata is not called.
TagIdle ==
    /\ disk = [p \in Paths |-> NoFile]
    /\ wm_pc = "idle"
    /\ wm_args = [songname |-> <<"a", "mp3">>, genre |-> None, year |-> None]
    /\ readback = <<>>

TagNext ==
    \/ WmFfmpegStart
    \/ WmFfmpegFinish
    \/ WmFfmpegFail
    \/ WmReplace
    \/ WmReplaceFail
    \/ ReadBack

\* ===================================================================
\* Editing a song's name and tags: EditWindow
\* ===================================================================

\* Names the user can type: the names of the folder and a name inside a
\* directory that does not exist.
NoDirName == <<"x/a", "mp3">>
EditNames == Names \cup {NoDirName}
GenreTexts == {"Pop", "Rock"}
YearTexts == {"1999", ""}
EditTexts == EditNames \X GenreTexts \X YearTexts

\* The user edits the line edits.
EditType(e) ==
    /\ ed_pc = "open"
    /\ editors' = e
    /\ UNCHANGED <<ed_pc, old_data, row, msg_label, editing_event, tagvars,
                   noneditvars>>

\* EditWindow.update_values up to the call of write_metadata: the cells of
\* the row get the editors' texts, and write_metadata is called if the
\* genre or the year differs from old_data.
update_values ==
    /\ ed_pc = "open"
    /\ row' = editors
    /\ IF old_data[2] # editors[2] \/ old_data[3] # editors[3]
       THEN /\ wm_pc' = "called"
            /\ wm_args' = [songname |-> old_data[1], genre |-> Str(editors[2]),
                           year |-> Str(editors[3])]
            /\ ed_pc' = "write"
       ELSE /\ UNCHANGED <<wm_pc, wm_args>>
            /\ ed_pc' = "rename"
    /\ UNCHANGED <<editors, old_data, msg_label, editing_event, disk, readback,
                   noneditvars>>

\* ... write_metadata has returned: "Updated metadata of: ..."
EditWritten ==
    /\ ed_pc = "write"
    /\ wm_pc = "returned"
    /\ msg_label' = "Updated metadata"
    /\ ed_pc' = "rename"
    /\ wm_pc' = "idle"
    /\ UNCHANGED <<editors, old_data, row, editing_event, disk, wm_args,
                   readback, noneditvars>>

\* ... write_metadata has raised: the exception ends update_values, and
\* the window stays open.
EditWriteRaised ==
    /\ ed_pc = "write"
    /\ wm_pc = "raised"
    /\ ed_pc' = "open"
    /\ wm_pc' = "idle"
    /\ UNCHANGED <<editors, old_data, row, msg_label, editing_event, disk,
                   wm_args, readback, noneditvars>>

\* EditWindow.close
EditClose ==
    /\ editing_event' = FALSE
    /\ ed_pc' = "closed"

\* os.rename(old, new) raises FileNotFoundError without the file old or
\* without the directory of new.
FileNotFound(files, old, new) == new = NoDirName \/ files[old].audio = "absent"

rename(files, old, new) ==
    [p \in Paths |-> IF p = new THEN files[old]
                     ELSE IF p = old THEN NoFile ELSE files[p]]

\* ... "if tmp[0] != self.old_data[0]": os.rename, the message, and close.
\* Onto an existing file os.rename either replaces it or raises
\* FileExistsError, which ends update_values with the window open.
EditRename ==
    /\ ed_pc = "rename"
    /\ LET old == old_data[1]
           new == editors[1]
       IN IF new = old
          THEN EditClose /\ UNCHANGED <<disk, msg_label>>
          ELSE IF FileNotFound(disk, old, new)
               THEN /\ msg_label' = "Error while renaming. No changes made."
                    /\ EditClose
                    /\ disk' = disk
               ELSE \/ /\ disk' = rename(disk, old, new)
                       /\ msg_label' = "Renamed"
                       /\ EditClose
                    \/ /\ disk[new].audio # "absent"
                       /\ ed_pc' = "open"
                       /\ UNCHANGED <<disk, msg_label, editing_event>>
    /\ UNCHANGED <<editors, old_data, row, wm_pc, wm_args, readback,
                   noneditvars>>

\* cancel_button or the close button of the title bar
EditCancel ==
    /\ ed_pc = "open"
    /\ EditClose
    /\ UNCHANGED <<editors, old_data, row, msg_label, tagvars, noneditvars>>

\* EditWindow.__init__ on the row of song a.mp3, whose tags the row shows;
\* the file may have been removed since the table was filled.
EditInit ==
    /\ ed_pc = "open"
    /\ old_data = <<<<"a", "mp3">>, "Pop", "1999">>
    /\ editors = old_data
    /\ row = old_data
    /\ msg_label = ""
    /\ editing_event = TRUE
    /\ disk \in {d \in [Paths -> SongFiles \cup
                          {[audio |-> "complete", TCON |-> <<"tag", "Pop">>,
                            Year |-> <<"tag", "1999">>]}] :
                    /\ \A p \in Paths \ Names : d[p] = NoFile
                    /\ d[<<"a", "mp3">>] \in
                          {NoFile, [audio |-> "complete", TCON |-> <<"tag", "Pop">>,
                                    Year |-> <<"tag", "1999">>]}
                    /\ d[<<"b", "mp3">>] \in SongFiles}
    /\ wm_pc = "idle"
    /\ wm_args = [songname |-> <<"a", "mp3">>, genre |-> None, year |-> None]
    /\ readback = <<>>

\* No EditWindow.
EditIdle ==
    /\ ed_pc = "absent"
    /\ old_data = <<<<"a", "mp3">>, "Pop", "1999">>
    /\ editors = old_data
    /\ row = old_data
    /\ msg_label = ""
    /\ editing_event = FALSE

EditNext ==
    \/ \E e \in EditTexts : EditType(e)
    \/ update_values
    \/ WmFfmpegStart
    \/ WmFfmpegFinish
    \/ WmFfmpegFail
    \/ WmReplace
    \/ WmReplaceFail
    \/ EditWritten
    \/ EditWriteRaised
    \/ EditRename
    \/ EditCancel

\* ===================================================================
\* The message label: TimedMessageLabel (src/element_bases.py)
\* ===================================================================

\* QTimer.singleShot timers of the label that have reached their time
DueTimers == {i \in DOMAIN lblTimers : lblTimers[i] = 0}

\* TimedMessageLabel.setText(msg, auto_clear). The messages are numbered
\* in the order in which they are set.
LblSetText(auto_clear) ==
    /\ lblSets < MaxMsgs
    /\ lblSets' = lblSets + 1
    /\ lblText' = lblSets + 1
    /\ lblAge' = 0
    /\ lblAuto' = auto_clear
    /\ lblTimers' = IF auto_clear THEN Append(lblTimers, DelayMs) ELSE lblTimers
    /\ UNCHANGED nonlblvars

\* TimedMessageLabel.clear, called by a timer that has reached its time.
LblClear ==
    /\ \E i \in DueTimers : lblTimers' = RemoveAt(lblTimers, i)
    /\ lblText' = 0
    /\ UNCHANGED <<lblAge, lblAuto, lblSets, nonlblvars>>

\* One unit of time passes; a timer that has reached its time fires
\* before the next unit.
LblTick ==
    /\ DueTimers = {}
    /\ lblTimers' = [i \in DOMAIN lblTimers |-> lblTimers[i] - 1]
    /\ lblAge' = IF lblAge < DelayMs THEN lblAge + 1 ELSE lblAge
    /\ UNCHANGED <<lblText, lblAuto, lblSets, nonlblvars>>

\* TimedMessageLabel.__init__
LblInit ==
    /\ lblText = 0
    /\ lblAge = 0
    /\ lblAuto = FALSE
    /\ lblTimers = <<>>
    /\ lblSets = 0

\* A label nothing is ever set on.
LblIdle ==
    /\ lblText = 0
    /\ lblAge = 0
    /\ lblAuto = FALSE
    /\ lblTimers = <<>>
    /\ lblSets = MaxMsgs

LblNext ==
    \/ \E auto_clear \in BOOLEAN : LblSetText(auto_clear)
    \/ LblClear
    \/ LblTick

\* ===================================================================
\* The song table: SongTable.next / prev / rand
\* ===================================================================

\* for r in range(r, rowCount()): the rows that are not hidden
RECURSIVE VisibleFrom(_, _, _)
VisibleFrom(r, n, H) ==
    IF r >= n
    THEN <<>>
    ELSE (IF r \in H THEN <<>> ELSE <<r>>) \o VisibleFrom(r + 1, n, H)

\* SongTable.get_visible_rows
get_visible_rows(n, H) == VisibleFrom(0, n, H)

\* list.index(x), from 0; -1 stands for ValueError
index(list, x) ==
    IF \E i \in DOMAIN list : list[i] = x
    THEN (CHOOSE i \in DOMAIN list :
              list[i] = x /\ \A j \in 1..(i - 1) : list[j] # x) - 1
    ELSE 0 - 1

next_row_no_wrap(indexes, sel) ==
    LET k == index(indexes, sel)
    IN IF k = 0 - 1
       THEN indexes[1]
       ELSE IF k + 1 = Len(indexes) THEN sel ELSE indexes[k + 2]

\* the row SongTable.next selects, indexes not empty
next_row(indexes, sel) ==
    LET k == index(indexes, sel)
    IN IF k = 0 - 1
       THEN indexes[1]
       ELSE LET pos == IF k + 1 >= Len(indexes) THEN 0 ELSE k + 1
            IN indexes[pos + 1]

\* the row SongTable.prev selects, indexes not empty
prev_row(indexes, sel) ==
    LET k == index(indexes, sel)
    IN IF k = 0 - 1
       THEN indexes[1]
       ELSE LET pos == IF k - 1 < 0 THEN Len(indexes) - 1 ELSE k - 1
            IN indexes[pos + 1]

\* tblOp when the last call was neither next nor prev
NoOp == <<"none", 0 - 1>>

\* SongTable.add_row
add_row ==
    /\ tblRows < MaxRows
    /\ tblRows' = tblRows + 1
    /\ tblOp' = NoOp
    /\ UNCHANGED <<tblHidden, tblSel, nontblvars>>

\* SongTable.filter_by: H are the rows whose field does not contain text.
filter_by(H) ==
    /\ tblHidden' = H
    /\ tblOp' = NoOp
    /\ UNCHANGED <<tblRows, tblSel, nontblvars>>

\* A left click on the visible row r.
TableClick(r) ==
    /\ r \notin tblHidden
    /\ tblSel' = r
    /\ tblOp' = NoOp
    /\ UNCHANGED <<tblRows, tblHidden, nontblvars>>

\* SongTable.next
TableNext ==
    LET indexes == get_visible_rows(tblRows, tblHidden)
    IN /\ tblSel' = IF Len(indexes) < 1 THEN tblSel ELSE next_row(indexes, tblSel)
       /\ tblOp' = <<"next", tblSel>>
       /\ UNCHANGED <<tblRows, tblHidden, nontblvars>>

\* SongTable.prev. tblOp keeps the row selected before a next that this
\* prev follows.
TablePrev ==
    LET indexes == get_visible_rows(tblRows, tblHidden)
    IN /\ tblSel' = IF Len(indexes) < 1 THEN tblSel ELSE prev_row(indexes, tblSel)
       /\ tblOp' = IF tblOp[1] = "next"
                   THEN <<"next, prev", tblOp[2]>>
                   ELSE <<"prev", tblSel>>
       /\ UNCHANGED <<tblRows, tblHidden, nontblvars>>

\* SongTable.rand: random.randint gives any index, and after five draws
\* that hit the current one the current one is kept.
TableRand ==
    LET indexes == get_visible_rows(tblRows, tblHidden)
    IN /\ Len(indexes) >= 1
       /\ tblSel' \in Range(indexes)
       /\ tblOp' = NoOp
       /\ UNCHANGED <<tblRows, tblHidden, nontblvars>>

\* SongTable.__init__
TblInit ==
    /\ tblRows = 0
    /\ tblHidden = {}
    /\ tblSel = 0 - 1
    /\ tblOp = NoOp

\* A table that stays empty.
TblIdle ==
    /\ tblRows = MaxRows
    /\ tblHidden = {}
    /\ tblSel = 0 - 1
    /\ tblOp = NoOp

TblNext ==
    \/ add_row
    \/ \E H \in SUBSET (0..(tblRows - 1)) : filter_by(H)
    \/ \E r \in 0..(tblRows - 1) : TableClick(r)
    \/ TableNext
    \/ TablePrev
    \/ TableRand

\* ===================================================================
\* utils.max_amplitude_binning
\* ===================================================================

\* Sample values of the audio data.
Samples == {0 - 2, 0, 1}

\* Lists of samples of length 0..MaxData
DataLists == UNION {[1..n -> Samples] : n \in 0..MaxData}

abs(v) == IF v < 0 THEN 0 - v ELSE v

\* data[a:b] for 0 <= a <= b: the bounds are clipped to len(data)
slice(data, a, b) ==
    LET lo == IF a > Len(data) THEN Len(data) ELSE a
        hi == IF b > Len(data) THEN Len(data) ELSE b
    IN SubSeq(data, lo + 1, hi)

\* max(list) of a list that is not empty
RECURSIVE pymax(_)
pymax(list) ==
    IF Len(list) = 1
    THEN list[1]
    ELSE LET m == pymax(Tail(list))
         IN IF list[1] >= m THEN list[1] ELSE m

bin_range_short(num_bins) == num_bins

\* len(range(num_bins + 1))
bin_range(num_bins) == num_bins + 1

\* The loop of max_amplitude_binning from b on: max([]) raises ValueError.
RECURSIVE BinLoop(_, _, _, _, _)
BinLoop(data, binwidth, b, n, acc) ==
    IF b >= n
    THEN [raised |-> FALSE, bins |-> acc]
    ELSE LET s == slice(data, b * binwidth, (b + 1) * binwidth)
         IN IF s = <<>>
            THEN [raised |-> TRUE, bins |-> <<>>]
            ELSE BinLoop(data, binwidth, b + 1, n,
                         Append(acc, pymax([i \in DOMAIN s |-> abs(s[i])])))

\* utils.max_amplitude_binning(data, num_bins)
max_amplitude_binning(data, num_bins) ==
    LET binwidth == Len(data) \div num_bins
    IN BinLoop(data, binwidth, 0, bin_range(num_bins), <<>>)

\* The call max_amplitude_binning(binData, binNum).
BinCall ==
    /\ binPc = "call"
    /\ LET res == max_amplitude_binning(binData, binNum)
       IN /\ binPc' = IF res.raised THEN "raised" ELSE "returned"
          /\ bins' = res.bins
    /\ UNCHANGED <<binData, binNum, nonbinvars>>

\* The arguments of a call.
BinInit ==
    /\ binData \in DataLists
    /\ binNum \in 1..MaxBins
    /\ binPc = "call"
    /\ bins = <<>>

\* No call.
BinIdle ==
    /\ binData = <<>>
    /\ binNum = 1
    /\ binPc = "raised"
    /\ bins = <<>>

BinNext == BinCall

\* ===================================================================
\* Specifications
\* ===================================================================

\* The download queue.
WidgetIdle == LblIdle /\ TblIdle /\ BinIdle

AuxIdle == TrimIdle /\ TagIdle /\ EditIdle /\ WidgetIdle

DLIdle == URLs = {} /\ dl_frames = <<>> /\ parallel_lim = 1
          /\ autoclose = FALSE /\ timer = FALSE

Init == DLInit /\ NormIdle /\ MdIdle /\ AuxIdle

Spec == Init /\ [][Next]_vars

\* The normalisation window.
NormSpecInit == NormInit /\ DLIdle /\ MdIdle /\ AuxIdle

NormSpec == NormSpecInit /\ [][NormNext]_vars

\* The metadata scan.
MdSpecInit == MdInit /\ DLIdle /\ NormIdle /\ AuxIdle

MdSpec == MdSpecInit /\ [][MdNext]_vars

\* A background task of either kind: a normalisation window or a metadata
\* scan.
TaskInit == NormSpecInit \/ MdSpecInit

TaskNext ==
    \/ NormNext
    \/ MdNext

TaskSpec == TaskInit /\ [][TaskNext]_vars

\* The trim window.
TrimSpecInit ==
    TrimInit /\ DLIdle /\ NormIdle /\ MdIdle /\ TagIdle /\ EditIdle /\ WidgetIdle

TrimSpec == TrimSpecInit /\ [][TrimNext]_vars

\* write_metadata followed by read_metadata.
TagSpecInit ==
    TagInit /\ DLIdle /\ NormIdle /\ MdIdle /\ TrimIdle /\ EditIdle /\ WidgetIdle

TagSpec == TagSpecInit /\ [][TagNext]_vars

\* The edit window.
EditSpecInit == EditInit /\ DLIdle /\ NormIdle /\ MdIdle /\ TrimIdle /\ WidgetIdle

EditSpec == EditSpecInit /\ [][EditNext]_vars

\* The message label.
IdleButWidgets ==
    DLIdle /\ NormIdle /\ MdIdle /\ TrimIdle /\ TagIdle /\ EditIdle

LblSpecInit == LblInit /\ TblIdle /\ BinIdle /\ IdleButWidgets

LblSpec == LblSpecInit /\ [][LblNext]_vars

\* The song table.
TblSpecInit == TblInit /\ LblIdle /\ BinIdle /\ IdleButWidgets

TblSpec == TblSpecInit /\ [][TblNext]_vars

\* Calls of max_amplitude_binning.
BinSpecInit == BinInit /\ LblIdle /\ TblIdle /\ IdleButWidgets

BinSpec == BinSpecInit /\ [][BinNext]_vars

\* ===================================================================
\* Properties of the download queue (checked under Spec)
\* ===================================================================

Frames == DOMAIN dl_frames

\* The frames of the next state that show the URL of frame i. No step
\* removes a frame and constructs another for its URL, so this is frame i
\* itself while it is tracked.
Same(i) == {j \in DOMAIN dl_frames' : dl_frames'[j].URL = dl_frames[i].URL}

\* The step starts a download thread for frame i.
Restarted(i) ==
    /\ dl_frames[i].th # "ytd"
    /\ \E j \in Same(i) : dl_frames'[j].th = "ytd"

\* The step is a press on the Start button of a queued frame.
StartPressed ==
    \E i \in Frames :
        /\ dl_frames[i].button = "_retry"
        /\ dl_frames' = [dl_frames EXCEPT ![i] = _retry(@)]
        /\ URLs' = URLs

\* C1, as stated: the number of frames that are started and not finished
\* never exceeds parallel_lim, whatever the user presses.
C1_RunningNeverExceedsLimit == qty_running(dl_frames) <= parallel_lim

\* C1, amended: no polling pass, thread outcome, submission or Cancel / OK
\* press takes the number of running frames above parallel_lim; the only
\* step that does is a press on the Start button of a queued frame.
C1_OnlyStartButtonExceedsLimit ==
    [][(/\ qty_running(dl_frames') > qty_running(dl_frames)
        /\ qty_running(dl_frames') > parallel_lim) => StartPressed]_vars

\* C1 witness: the limit binds: parallel_lim frames run while another frame
\* waits in the queue.
C1_Witness ==
    /\ qty_running(dl_frames) = parallel_lim
    /\ \E i \in Frames : ~dl_frames[i].started /\ dl_frames[i].th = "none"

\* A frame in a terminal state that is marked for closing.
Closeable(F) == F.finished /\ F.can_close

\* C5: with autoclose, every polling pass removes the terminal frames it
\* finds (the first of them at least, which no removal before it can hide
\* from the loop), whether or not the user has pressed anything.
C5_TerminalAutoCloseRemoved ==
    [][(_check_loop /\ autoclose) =>
          \A i \in Frames :
              (/\ Closeable(dl_frames[i])
               /\ \A k \in 1..(i - 1) : ~Closeable(dl_frames[k]))
              => Same(i) = {}]_vars

\* A frame whose download ended with a retryable DownloadError and which
\* the user has not touched since.
RetryableFailed(F) ==
    /\ ~F.started
    /\ ~F.finished
    /\ F.can_run
    /\ F.th \in {"handled", "dead"}
    /\ F.button = "_cancel_thread"

\* C6: a polling pass that leaves fewer than parallel_lim frames running
\* has started every frame that had failed with a retryable failure.
C6_RetryableRestartedByNextPass ==
    [][_check_loop =>
          \A i \in Frames :
              RetryableFailed(dl_frames[i]) =>
                  \/ \E j \in Same(i) : dl_frames'[j].started
                  \/ qty_running(dl_frames') >= parallel_lim]_vars

\* C7, as stated: while DownloadError(msg) is on its way out of ytd, a
\* message with "unable" has left the frame runnable and a message with
\* "ERROR" has ended it.
C7_ErrorWordMeansPermanent ==
    \A i \in Frames :
        dl_frames[i].th = "raising" =>
            /\ Contains(dl_frames[i].exc, "unable") =>
                   dl_frames[i].can_run /\ ~dl_frames[i].finished
            /\ Contains(dl_frames[i].exc, "ERROR") =>
                   ~dl_frames[i].can_run /\ dl_frames[i].finished

\* C7, amended: "unable" decides first. A message with "unable" leaves the
\* frame runnable, and once the exception is handled the frame is not
\* started and can run again; a message with "ERROR" and without "unable"
\* ends the frame (finished, can_run false); a frame with can_run false is
\* never started again and never gets can_run back.
C7_Classification ==
    /\ [](\A i \in Frames :
            dl_frames[i].th = "raising" =>
                /\ Contains(dl_frames[i].exc, "unable") =>
                       dl_frames[i].can_run /\ ~dl_frames[i].finished
                /\ (/\ Contains(dl_frames[i].exc, "ERROR")
                    /\ ~Contains(dl_frames[i].exc, "unable")) =>
                       ~dl_frames[i].can_run /\ dl_frames[i].finished)
    /\ [][\A i \in Frames :
            /\ (/\ dl_frames[i].th = "raising"
                /\ Contains(dl_frames[i].exc, "unable")
                /\ \E j \in Same(i) : dl_frames'[j].th = "handled")
               => \A j \in Same(i) :
                      /\ ~dl_frames'[j].started
                      /\ dl_frames'[j].can_run
                      /\ ~dl_frames'[j].finished
            /\ ~dl_frames[i].can_run
               => /\ ~Restarted(i)
                  /\ \A j \in Same(i) : ~dl_frames'[j].can_run]_vars

\* C7 witness: a message with both words has been reported and the frame
\* is still runnable.
C7_Witness ==
    \E i \in Frames :
        /\ dl_frames[i].th = "raising"
        /\ dl_frames[i].exc = <<"ERROR", "unable">>
        /\ dl_frames[i].can_run

\* A frame whose _cancel_thread has run and which has not been dismissed.
Cancelled(F) == F.button = "close" /\ ~F.finished

\* C8: no step starts a download thread for a cancelled frame.
C8_CancelledNeverRestarted ==
    [][\A i \in Frames : Cancelled(dl_frames[i]) => ~Restarted(i)]_vars

\* C9: no two tracked frames show the same URL.
C9_NoDuplicateURL ==
    \A i, j \in Frames : i # j => dl_frames[i].URL # dl_frames[j].URL

\* C9 witness: two frames are tracked and the URL of one of them has been
\* submitted again.
C9_Witness ==
    /\ Len(dl_frames) = 2
    /\ \E i \in Frames : dl_frames[i].URL \in URLs

\* ===================================================================
\* Properties of the background tasks (checked under TaskSpec, NormSpec)
\* ===================================================================

\* n copies of e
Repeat(e, n) == [i \in 1..n |-> e]

\* Entries of the first n signals of log that equal e.
CountIn(log, n, e) == Cardinality({i \in 1..n : log[i] = e})

\* C2, as stated: a scan that load_metadata was asked for, and a
\* normalisation that returned with the event never set, have emitted
\* exactly as many progress signals as the list has items, then one done
\* and one finished.
C2_KProgressThenDoneFinished ==
    /\ mdpc \in {"idle", "returned"} =>
           /\ Count(mdLog, "progress") = mdSongs
           /\ Count(mdLog, "done") = 1
           /\ Count(mdLog, "finished") = 1
    /\ (wpc = "returned" /\ ~_interrupt_event /\ win # "closed") =>
           /\ ProgressEmitted = songs
           /\ Count(normLog, "done") = 1
           /\ Count(normLog, "finished") = 1

\* C2, amended. Metadata scan: load_metadata starts a worker only for a
\* list that is not empty; the worker emits one progress per song, then
\* data, done and finished, and _progress is the number of progress signals
\* handled; for an empty list nothing is ever emitted. Normalisation that
\* returns with the event not set: one check_progress per song, convert_qty,
\* one norm_progress per song that was not normalised, then done and
\* finished; _check_progress is the number of check_progress signals handled
\* while updates are not ignored.
C2_CompletedRunEvents ==
    /\ mdpc = "returned" =>
           /\ mdSongs >= 1
           /\ mdLog = Repeat("progress", mdSongs) \o <<"data", "done", "finished">>
    /\ mdpc \in {"none", "idle"} => mdLog = <<>>
    /\ mdpc = "idle" => mdSongs = 0
    /\ _progress = CountIn(mdLog, mdRead, "progress")
    /\ (wpc = "returned" /\ ~_interrupt_event /\ win # "closed") =>
           normLog = Repeat("check_progress", songs) \o <<"convert_qty">>
                     \o Repeat("norm_progress", Len(to_convert))
                     \o <<"done", "finished">>
    /\ ~_ignore_updates =>
           /\ _check_progress = CountIn(normLog, normRead, "check_progress")
           /\ _norm_progress = CountIn(normLog, normRead, "norm_progress")

\* C2 witness: a normalisation over two songs, one of them to convert, has
\* returned without the event set and all its signals are handled.
C2_Witness ==
    /\ wpc = "returned"
    /\ ~_interrupt_event
    /\ songs = 2
    /\ Len(to_convert) = 1
    /\ normRead = Len(normLog)
    /\ _check_progress = 2

\* C3, as stated: the event set when M < len(songs) items were done leaves
\* at most M progress signals, one finished and no done.
C3_AtMostMProgress ==
    (setAt >= 0 /\ setAt < songs /\ wpc = "returned") =>
        /\ ProgressEmitted <= setAt
        /\ Count(normLog, "finished") = 1
        /\ Count(normLog, "done") = 0

\* C3, amended: the event set when M items were done and an item was still
\* to come (M < len(songs), or in the second loop fewer than len(to_convert)
\* results) leaves at most M + 1 progress signals and no done, and the run
\* returns with exactly one finished.
C3_AtMostMPlusOneProgress ==
    (setAt >= 0 /\ setAt < songs + Len(to_convert)) =>
        /\ ProgressEmitted <= setAt + 1
        /\ Count(normLog, "done") = 0
        /\ Count(normLog, "finished") <= 1
        /\ wpc = "returned" => Count(normLog, "finished") = 1

\* C3 witness: the event was set during the first loop with a song still
\* to check, and the run has returned.
C3_Witness ==
    /\ setAt >= 0
    /\ setAt + 1 < songs
    /\ wpc = "returned"
    /\ ProgressEmitted = setAt + 1

\* C4: once _interrupt_event is set it stays set.
C4_InterruptMonotonic == [][_interrupt_event => _interrupt_event']_vars

\* C4 witness: the event was set by the Cancel button, the window was then
\* closed with Ok, and every signal of the worker has been handled.
C4_Witness ==
    /\ _interrupt_event
    /\ win = "closed"
    /\ songs > 0
    /\ Len(normLog) > 0
    /\ normRead = Len(normLog)
    /\ setAt >= songs

\* C10: an item whose normalisation fails never ends the run; a progress
\* signal is emitted for every item handled, a failed item is left not
\* normalised, and a run that returns with the event not set has handled
\* every item of to_convert and ends with done and finished.
C10_NormalizationBestEffort ==
    /\ wpc # "raised"
    /\ Count(normLog, "norm_progress") = Cardinality(converted)
    /\ \A s \in converted : failure[s] # "ok" => s \in unnormalized
    /\ \A s \in converted : failure[s] = "ok" => s \notin unnormalized
    /\ (wpc = "returned" /\ ~_interrupt_event /\ win # "closed") =>
           /\ converted = Range(to_convert)
           /\ SubSeq(normLog, Len(normLog) - 1, Len(normLog)) = <<"done", "finished">>

\* C10 witness: two songs were to convert, one failed to decode and the
\* other could not be written; the run ended with done and finished.
C10_Witness ==
    /\ wpc = "returned"
    /\ ~_interrupt_event
    /\ Len(to_convert) = 2
    /\ \E s, t \in converted : failure[s] = "decode" /\ failure[t] = "perm"
    /\ Count(normLog, "norm_progress") = 2
    /\ Count(normLog, "done") = 1

\* ===================================================================
\* Properties of the trim window (checked under TrimSpec)
\* ===================================================================

\* C11: the success outcome (_done: "Trimmed: <song>" and the new duration
\* in the table) is never reported for a worker whose child process failed.
C11_TrimFailsLoud ==
    \A i \in TrimWorker :
        trim_workers[i].exitcode # 0 =>
            /\ ~trim_workers[i].handled
            /\ _message_label # "Trimmed"

\* ===================================================================
\* Properties of the metadata scan (checked under MdSpec)
\* ===================================================================

\* C12: a file that cannot be decoded or whose tags cannot be read gets the
\* placeholder result and never ends the scan: run does not raise, and
\* when it has returned every file has a progress signal and the signals
\* end with data, done, finished.
C12_BadFileGetsPlaceholder ==
    /\ mdpc # "raised"
    /\ \A i \in DOMAIN out :
           FileKind(i) # "ok" => out[i] = "placeholder"
    /\ mdpc = "returned" =>
           /\ Count(mdLog, "progress") = mdSongs
           /\ SubSeq(mdLog, mdSongs + 1, Len(mdLog)) = <<"data", "done", "finished">>

\* ===================================================================
\* Properties of write_metadata (checked under TagSpec)
\* ===================================================================

\* C13: no song file is ever partially written, and every step of
\* write_metadata either leaves the file at the original path as it is or
\* replaces it, in the one step os.replace, by the complete retagged copy.
C13_OriginalNeverPartial ==
    /\ [](\A n \in Names : disk[n].audio # "partial")
    /\ [][LET o == wm_args.songname
              t == tmp_name(o)
          IN \/ disk'[o] = disk[o]
             \/ /\ wm_pc = "replace"
                /\ disk[t].audio = "complete"
                /\ disk'[o] = disk[t]]_vars

\* C13 witness: ffmpeg failed while it was writing the copy; the temporary
\* file is partial and the original is complete.
C13_Witness ==
    /\ wm_pc = "raised"
    /\ disk[tmp_name(wm_args.songname)].audio = "partial"
    /\ disk[wm_args.songname].audio = "complete"

IsText(value) == value # None /\ value[2] # ""

C14_NoPartialSongFile ==
    wpc \in {"returned", "raised"} =>
        \A s \in Song : song_file[s] \in {"old", "written"}

\* ===================================================================
\* Properties of the edit window (checked under EditSpec)
\* ===================================================================

\* C15: while the message of a failed rename is shown, the row shows the
\* texts it had before the edit and the file, if it is there, has the tags
\* it had.
C15_FailedRenameChangesNothing ==
    msg_label = "Error while renaming. No changes made." =>
        /\ row = old_data
        /\ disk[old_data[1]].audio = "complete" =>
               /\ disk[old_data[1]].TCON = <<"tag", old_data[2]>>
               /\ disk[old_data[1]].Year = <<"tag", old_data[3]>>

\* C16: the UI thread is never blocked waiting for the worker: close() is
\* never inside self.thread.wait().
C16_InitiatorNeverBlocks == win # "closing"

\* C18: no per-item operation (check_normalized on the next song, _norm on
\* an item handed to the pool) is started while the event is set.
C18_NoOperationStartedAfterFlag ==
    [][(NormCheckStart \/ \E s \in Song : PoolExport(s)) => ~_interrupt_event]_vars

\* ===================================================================
\* Further properties of the download queue (checked under Spec)
\* ===================================================================

\* A frame that waits to be started.
PendingFrame(F) == ~F.started /\ F.can_run /\ ~F.finished

\* C19: after a pass of _check_loop a frame still waits only if
\* parallel_lim downloads are running.
C19_NoPendingFramePassedOver ==
    [][_check_loop =>
          \A j \in DOMAIN dl_frames' :
              PendingFrame(dl_frames'[j]) =>
                  qty_running(dl_frames') >= parallel_lim]_vars

\* ===================================================================
\* Further properties of the background tasks (checked under TaskSpec)
\* ===================================================================

\* The counters never exceed the number of items of their task.
CountsBounded ==
    /\ _check_progress <= songs
    /\ _norm_progress <= Len(to_convert)
    /\ _progress <= mdSongs

\* No step makes a counter smaller.
CountsNeverDecrease ==
    /\ _check_progress' >= _check_progress
    /\ _norm_progress' >= _norm_progress
    /\ _progress' >= _progress

DlThreadStep(i) ==
    \/ DlSucceed(i)
    \/ \E msg \in Msgs : DlErrorEnter(i, msg)
    \/ DlError(i)
    \/ DlRaise(i)
    \/ DlExit(i)

\* C21: no step of a download thread writes a DLFrame field that the UI
\* thread reads in _check_runnable, _check_loop and _retry (started,
\* finished, can_run).
C21_WorkerWritesNoFrameField ==
    [][\A i \in Frames :
          DlThreadStep(i) =>
              /\ dl_frames'[i].started = dl_frames[i].started
              /\ dl_frames'[i].finished = dl_frames[i].finished
              /\ dl_frames'[i].can_run = dl_frames[i].can_run]_vars

\* C22: every pass of _check_loop reaches its last statement, which
\* schedules the next pass, so a pass is always pending.
C22_PollingNeverStops ==
    /\ []timer
    /\ [][_check_loop => timer']_vars

\* A frame whose download the user cancelled while it was running and
\* which has not been dismissed with OK.
CancelledRunning(F) ==
    /\ F.button = "close"
    /\ F.th = "dead"
    /\ F.started
    /\ ~F.finished

\* the tracked frames that are CancelledRunning
CancelledRunningFrames(frames) ==
    {i \in DOMAIN frames : CancelledRunning(frames[i])}

\* C23: a press of Cancel on a frame whose download is running leaves it
\* started and not finished; such a frame stays tracked and unchanged by
\* every step but a press of its OK button, so _check_runnable counts it;
\* while at least parallel_lim such frames are tracked, a polling pass
\* starts no download thread and constructs no started frame.
C23_CancelledRunningHoldsSlot ==
    /\ [](CancelledRunningFrames(dl_frames) \subseteq
              {i \in Frames : dl_frames[i].started /\ ~dl_frames[i].finished})
    /\ [][/\ \A i \in Frames :
                (PressCancel(i) /\ dl_frames[i].th = "ytd")
                    => CancelledRunning(dl_frames'[i])
          /\ \A i \in Frames :
                CancelledRunning(dl_frames[i]) =>
                    \/ PressOK(i)
                    \/ \E j \in Same(i) : dl_frames'[j] = dl_frames[i]
          /\ (/\ _check_loop
              /\ Cardinality(CancelledRunningFrames(dl_frames)) >= parallel_lim)
                 => /\ \A i \in Frames : ~Restarted(i)
                    /\ \A j \in DOMAIN dl_frames' :
                           dl_frames'[j].th = "ytd" =>
                               \E i \in Frames : dl_frames[i] = dl_frames'[j]]_vars

\* C23 witness: parallel_lim cancelled downloads are tracked, nothing is
\* running, and a frame waits in the queue.
C23_Witness ==
    /\ Cardinality(CancelledRunningFrames(dl_frames)) = parallel_lim
    /\ \A i \in Frames : dl_frames[i].th \in {"none", "dead"}
    /\ \E i \in Frames :
          /\ ~dl_frames[i].started
          /\ dl_frames[i].th = "none"
          /\ dl_frames[i].can_run

\* ===================================================================
\* Further properties of the trim window (checked under TrimSpec)
\* ===================================================================

\* C24: a TrimSongWindow starts at most one trim worker; once a worker has
\* been started, no invocation of _trim_song starts another.
C24_AtMostOneTrimWorker ==
    /\ [](Len(trim_workers) <= 1)
    /\ [][trim_workers # <<>> => Len(trim_workers') = Len(trim_workers)]_vars

\* ===================================================================
\* Further properties of the normalisation window (checked under NormSpec)
\* ===================================================================

\* The UI thread has handled the worker's convert_qty signal.
QtyHandled == CountIn(normLog, normRead, "convert_qty") = 1

\* The step sets the cancellation flag.
FlagSet == ~_interrupt_event /\ _interrupt_event'

\* C25: until the window has handled a convert_qty signal with a positive
\* quantity nothing is connected to the Cancel button, so a press changes
\* no state; a press of the button sets the flag through _cancel_thread
\* only after that; every other step that sets the flag is a close() of
\* the window (title bar, or the button once it is connected to close).
C25_CancelOnlyAfterPositiveQty ==
    /\ []((win = "open" /\ ~(QtyHandled /\ Len(to_convert) > 0))
             => cancel_button \in {<<>>, <<"close">>})
    /\ []((win = "open" /\ ~QtyHandled) => cancel_button = <<>>)
    /\ [][/\ PressCancelButton => QtyHandled /\ Len(to_convert) > 0
          /\ PressUnconnected => UNCHANGED vars
          /\ FlagSet => PressCancelButton \/ TitleBarClose \/ PressOkButton
          /\ (FlagSet /\ ~QtyHandled) => TitleBarClose]_vars

\* C25 witness: the checking phase is over with songs to convert, the
\* window has handled convert_qty, and a press of Cancel has set the flag
\* while the window stays open.
C25_Witness ==
    /\ win = "open"
    /\ songs > 0
    /\ QtyHandled
    /\ Len(to_convert) > 0
    /\ _interrupt_event
    /\ cancel_button = <<"close">>

\* ===================================================================
\* Further properties of a DLFrame (checked under Spec)
\* ===================================================================

\* No step takes finished of a tracked frame from true to false.
FinishedStays ==
    \A i \in Frames :
        dl_frames[i].finished => \A j \in Same(i) : dl_frames'[j].finished

\* C26, as stated: finished never changes from true back to false, and in
\* every state a frame with can_run false has finished true.
C26_FinishedStableAndImpliedByNoRun ==
    /\ [][FinishedStays]_vars
    /\ [](\A i \in Frames : ~dl_frames[i].can_run => dl_frames[i].finished)

\* C26, amended: finished never changes from true back to false; a frame
\* with can_run false has finished true, except while its download thread
\* is inside DLFrame.error between "self.can_run = False" and
\* "self.finished = True"; when that thread leaves error, finished is true.
C26_FinishedStableAndSetByError ==
    /\ [][FinishedStays]_vars
    /\ [](\A i \in Frames :
            ~dl_frames[i].can_run =>
                dl_frames[i].finished \/ dl_frames[i].th = "error")
    /\ [][\A i \in Frames :
            (DlError(i) /\ ~dl_frames[i].can_run) => dl_frames'[i].finished]_vars

\* C26 witness: the download thread has set can_run to false and has not
\* yet set finished, while the timer of the next polling pass is pending.
C26_Witness ==
    /\ timer
    /\ \E i \in Frames :
          /\ dl_frames[i].th = "error"
          /\ ~dl_frames[i].can_run
          /\ ~dl_frames[i].finished

\* C27: _cancel_thread sets _ignore_updates, which is never cleared, and
\* from then on no step changes _check_progress or _norm_progress,
\* whichever progress signals are still delivered.
C27_CountersFrozenAfterCancel ==
    [][/\ (PressCancelButton \/ (TitleBarClose /\ ~thread_finished)
              \/ (PressOkButton /\ ~thread_finished)) => _ignore_updates'
       /\ _ignore_updates =>
              /\ _ignore_updates'
              /\ _check_progress' = _check_progress
              /\ _norm_progress' = _norm_progress]_vars

\* C27 witness: after a press of Cancel the window, still open, has been
\* delivered a norm_progress signal that it did not count.
C27_Witness ==
    /\ win = "open"
    /\ _ignore_updates
    /\ _norm_progress < CountIn(normLog, normRead, "norm_progress")

\* ===================================================================
\* Properties of the message label (checked under LblSpec)
\* ===================================================================

\* C28: a message set with auto_clear is cleared only when delay_ms has
\* passed since it was set: no timer started by an earlier message clears
\* it before.
C28_MessageStaysForItsDelay ==
    [][(LblClear /\ lblText # 0 /\ lblAuto) => lblAge >= DelayMs]_vars

\* ===================================================================
\* Properties of the song table (checked under TblSpec)
\* ===================================================================

\* the rows that are not hidden
Visible == (0..(tblRows - 1)) \ tblHidden

\* The visible row after r, the first visible row after the last one.
Following(r) ==
    IF \E v \in Visible : v > r
    THEN CHOOSE v \in Visible : v > r /\ \A u \in Visible : u > r => v <= u
    ELSE CHOOSE v \in Visible : \A u \in Visible : v <= u

\* C29: with the selected row visible, next selects the following visible
\* row, the first one after the last; a prev that follows brings the
\* selection back to the row selected before the next; neither selects a
\* hidden row.
C29_PrevUndoesNext ==
    /\ []((tblOp[1] = "next, prev" /\ tblOp[2] \in Visible) => tblSel = tblOp[2])
    /\ [][/\ (TableNext /\ tblSel \in Visible) =>
                 /\ tblSel' = Following(tblSel)
                 /\ prev_row(get_visible_rows(tblRows, tblHidden), tblSel') = tblSel
          /\ (TableNext \/ TablePrev) =>
                 \/ tblSel' \in Visible
                 \/ Visible = {} /\ tblSel' = tblSel]_vars

\* C29 witness: with a hidden row between two visible ones, next has
\* taken the selection from the last visible row round to the first and
\* prev has brought it back.
C29_Witness ==
    /\ tblOp = <<"next, prev", 2>>
    /\ tblSel = 2
    /\ tblHidden = {1}
    /\ tblRows = 3

\* ===================================================================
\* Properties of max_amplitude_binning (checked under BinSpec)
\* ===================================================================

\* w = len(data) div num_bins
BinW == Len(binData) \div binNum

\* the positions of data, from 1, that lie in data[b*w : (b+1)*w]
SliceOf(b) == {i \in 1..Len(binData) : b * BinW < i /\ i <= (b + 1) * BinW}

\* the largest absolute value of the samples in the slice b
MaxAbs(b) ==
    CHOOSE m \in {abs(binData[i]) : i \in SliceOf(b)} :
        \A i \in SliceOf(b) : abs(binData[i]) <= m

\* C30: when every one of the num_bins + 1 slices holds a sample the call
\* returns num_bins + 1 values, the b-th the largest absolute value in
\* slice b; when the last slice is empty, which is when len(data) is a
\* multiple of num_bins or smaller than num_bins, the call raises.
C30_BinsAreSliceMaxima ==
    binPc # "call" =>
        /\ (\A b \in 0..binNum : SliceOf(b) # {}) =>
               /\ binPc = "returned"
               /\ Len(bins) = binNum + 1
               /\ \A b \in 0..binNum : bins[b + 1] = MaxAbs(b)
        /\ SliceOf(binNum) = {} => binPc = "raised"
        /\ SliceOf(binNum) = {} <=>
               \/ Len(binData) % binNum = 0
               \/ Len(binData) < binNum
        /\ binPc = "returned" => \A b \in 0..binNum : SliceOf(b) # {}

\* C30 witness: a call with two bins on five samples has returned three
\* values, the last from a slice that is shorter than the others.
C30_Witness ==
    /\ binPc = "returned"
    /\ binNum = 2
    /\ Len(binData) = 5
    /\ bins = <<2, 1, 2>>

====
